---- MODULE Spec2Model ----
(***************************************************************************)
(* Model of src/bot.py: a Telegram bot that transcribes Persian text from  *)
(* images and PDFs with a pool of Gemini models, rotating the process-wide *)
(* cursor current_model_idx on rate-limit errors, keeping each result in   *)
(* context.user_data['extractions'] and mailing it when the inline button  *)
(* is tapped.                                                              *)
(*                                                                         *)
(* Handlers are coroutines: a handler runs from one await to the next     *)
(* without interruption, and the field pc of a handler names the await it  *)
(* is suspended at, the awaited call (a message sent, a remote call        *)
(* started) made.  Awaits that follow each other with no state read or     *)
(* written between them are one position, and so are a handler's last      *)
(* await and its return.                                                   *)
(* main() builds the Application without concurrent_updates and registers *)
(* every handler as blocking: an update is taken when the handler of the   *)
(* one before is over, so the extraction requests of the conversations     *)
(* follow one another on the shared cursor.                                *)
(*                                                                         *)
(* The environment: which identities are rate limited is fixed for a run  *)
(* (the set `limited`); sending a message always succeeds; page rendering  *)
(* does not fail.                                                          *)
(*                                                                         *)
(* Strings are TLA+ strings; the emoji that prefix some of the bot's       *)
(* messages are left out because TLA+ strings are ASCII.                   *)
(***************************************************************************)
EXTENDS Integers, Sequences, FiniteSets, TLC

(***************************************************************************)
(* Bounds of the model.                                                    *)
(***************************************************************************)
\* largest pool of model identities (len(MODELS)) explored
MaxPool == 2
\* largest page count of a submitted PDF
MaxPages == 4
\* number of updates (messages and button taps) the bot receives in a run
MaxUpdates == 2

(***************************************************************************)
(* Program constants.                                                      *)
(***************************************************************************)
\* max_attempts = 3 * len(MODELS)
RetryFactor == 3
\* max_pages = min(page_count, 3)
PageCap == 3
\* all_text[i:i+4000]
ChunkSize == 4000

ModelName(i) ==
    IF i = 1 THEN "gemini-2.0-flash"
    ELSE IF i = 2 THEN "gemini-2.0-flash-lite"
    ELSE "gemini-extra-" \o ToString(i)

ModelNames == [i \in 1..MaxPool |-> ModelName(i)]

Pools == { SubSeq(ModelNames, 1, n) : n \in 1..MaxPool }

Users == {1, 2, 3}
\* the chats the bot gets updates from: the private chats of users 1 and 3,
\* whose id is the user's, and one group chat
Chats == {1, 3, 4}
\* update.effective_user.id of the updates of chat c; in the group chat user
\* 1 writes
UserOf(c) == IF c \in Users THEN c ELSE 1
AUTHORIZED_USERS == {1, 2}
USER_EMAIL == "user@example.com"

\* the handler invocations of a run: invocation s handles the s-th update
Slots == 1..MaxUpdates

(***************************************************************************)
(* String helpers: Python's str operations, computed as Python does.       *)
(***************************************************************************)
Min(a, b) == IF a <= b THEN a ELSE b

\* sub in s
Contains(sub, s) ==
    \E i \in 1..(Len(s) - Len(sub) + 1) : SubSeq(s, i, i + Len(sub) - 1) = sub

\* s.startswith(p)
StartsWith(s, p) == Len(s) >= Len(p) /\ SubSeq(s, 1, Len(p)) = p

\* s.endswith(p)
EndsWith(s, p) == Len(s) >= Len(p) /\ SubSeq(s, Len(s) - Len(p) + 1, Len(s)) = p

Upper == <<"A", "B", "C", "D", "E", "F", "G", "H", "I", "J", "K", "L", "M",
           "N", "O", "P", "Q", "R", "S", "T", "U", "V", "W", "X", "Y", "Z">>
Lower == <<"a", "b", "c", "d", "e", "f", "g", "h", "i", "j", "k", "l", "m",
           "n", "o", "p", "q", "r", "s", "t", "u", "v", "w", "x", "y", "z">>

LowerChar(c) ==
    IF \E i \in 1..26 : Upper[i] = c
    THEN Lower[CHOOSE i \in 1..26 : Upper[i] = c]
    ELSE c

\* s.lower()
RECURSIVE ToLower(_)
ToLower(s) ==
    IF Len(s) = 0 THEN s
    ELSE LowerChar(SubSeq(s, 1, 1)) \o ToLower(SubSeq(s, 2, Len(s)))

\* the ASCII characters str.strip() takes off: space, \t, \n, \r, \f,
\* vertical tab (0x0b) and the separators 0x1c, 0x1d, 0x1e, 0x1f (it also
\* takes off the Unicode spaces, which a TLA+ string cannot hold)
Whitespace == {" ", "\n", "\t", "\r", "\f", "", "", "", "", ""}

RECURSIVE LStrip(_)
LStrip(s) ==
    IF Len(s) > 0 /\ SubSeq(s, 1, 1) \in Whitespace
    THEN LStrip(SubSeq(s, 2, Len(s)))
    ELSE s

RECURSIVE RStrip(_)
RStrip(s) ==
    IF Len(s) > 0 /\ SubSeq(s, Len(s), Len(s)) \in Whitespace
    THEN RStrip(SubSeq(s, 1, Len(s) - 1))
    ELSE s

\* s.strip()
Strip(s) == RStrip(LStrip(s))

\* index of the first occurrence of the one-character string c in s at or
\* after position i, or Len(s) + 1 when there is none
RECURSIVE Find(_, _, _)
Find(s, c, i) ==
    IF i > Len(s) THEN Len(s) + 1
    ELSE IF SubSeq(s, i, i) = c THEN i
    ELSE Find(s, c, i + 1)

\* s.split(':')[1] (the callers have checked that s holds a ':')
SplitSecond(s) ==
    LET a == Find(s, ":", 1)
        b == Find(s, ":", a + 1)
    IN  SubSeq(s, a + 1, b - 1)

\* [s[i:i+4000] for i in range(0, len(s), 4000)]
Chunks(s) ==
    [k \in 1..((Len(s) + ChunkSize - 1) \div ChunkSize) |->
        SubSeq(s, (k - 1) * ChunkSize + 1, Min(k * ChunkSize, Len(s)))]

RECURSIVE Doubled(_, _)
Doubled(s, k) == IF k = 0 THEN s ELSE Doubled(s \o s, k - 1)

(***************************************************************************)
(* Inputs.  A photo or a rendered PDF page is an image; what the remote    *)
(* model answers for it when the call is not rate limited is a property of *)
(* the image: a text, or an error that is not a rate-limit error.          *)
(***************************************************************************)
\* a text longer than one 4000-character segment (4096 characters)
LongText == Doubled("salam az ", 9) \o "payan"

Texts == {"", "  salam donya\n", LongText}

\* messages of errors that are not rate-limit errors
FatalMsgs == {"500 Internal error"}

\* messages of rate-limit and quota errors
RateLimitMsgs == {"429 Resource has been exhausted", "You exceeded your current quota"}

\* the rate-limit messages identity m answers with: the second identity of
\* the pool reports its quota, the others answer 429
RateLimitMsgsOf(m) ==
    IF m = ModelName(2) THEN {"You exceeded your current quota"}
    ELSE {"429 Resource has been exhausted"}

Answers ==
    { [ok |-> TRUE, text |-> t, error |-> ""] : t \in Texts }
    \cup { [ok |-> FALSE, text |-> "", error |-> e] : e \in FatalMsgs }

\* a photo: fault is the error of get_file, download_as_bytearray or
\* Image.open ("" when they succeed); what the model reads in it is drawn
\* from Answers when a call returns
Photos == { [fault |-> ""], [fault |-> "cannot identify image file"] }

\* the pages of the documents explored: page i of the document with
\* offset d shows PageCycle[((i - 1 + d) % 4) + 1]
PageCycle ==
    << [ok |-> TRUE, text |-> LongText, error |-> ""],
       [ok |-> FALSE, text |-> "", error |-> "500 Internal error"],
       [ok |-> TRUE, text |-> " \n", error |-> ""],
       [ok |-> TRUE, text |-> "  salam donya\n", error |-> ""] >>

Offsets == {0}

PdfPages(n, d) == [i \in 1..n |-> PageCycle[((i - 1 + d) % Len(PageCycle)) + 1]]

\* a document: download_fault is the error of get_file or
\* download_as_bytearray, open_fault the error of fitz.open
Documents ==
    { [file_name |-> "scan.PDF", download_fault |-> "", open_fault |-> "",
       pages |-> PdfPages(n, d)] : n \in 0..MaxPages, d \in Offsets }
    \cup { [file_name |-> "scan.pdf", download_fault |-> "", pages |-> << >>,
            open_fault |-> "Failed to open file"],
           [file_name |-> "scan.pdf", open_fault |-> "", pages |-> << >>,
            download_fault |-> "Flood control exceeded. Retry in 429 seconds"],
           [file_name |-> "scan.pdf.txt", download_fault |-> "", open_fault |-> "",
            pages |-> << >>] }

NoPhoto == [fault |-> ""]
NoDocument == [file_name |-> "", download_fault |-> "", open_fault |-> "", pages |-> << >>]
NoButton == [message |-> 0, data |-> "", handle |-> "", text |-> ""]

(***************************************************************************)
(* State.                                                                  *)
(***************************************************************************)
VARIABLES
    MODELS,             \* the configured pool, fixed at process start
    limited,            \* the identities whose calls are rate limited
    current_model_idx,  \* the process-wide cursor
    MODEL_USAGE,        \* per identity: count, last_used, errors
    now,                \* time.time()
    user_data,          \* context.user_data of each user
    h,                  \* the handler coroutine of each update
    next_message_id,    \* the next message id of each chat
    sent,               \* the messages each handler has sent
    buttons,            \* the inline buttons shown in each chat
    notices,            \* the "Processing..." messages not deleted
    tmp_files,          \* temporary PDF files on disk
    emails,             \* the calls of send_email, in order
    updates,            \* number of updates received
    last                \* the latest update received

vars == << MODELS, limited, current_model_idx, MODEL_USAGE, now, user_data, h,
           next_message_id, sent, buttons, notices, tmp_files, emails,
           updates, last >>

config == << MODELS, limited >>
shared == << current_model_idx, MODEL_USAGE, now >>
chat == << next_message_id, sent, buttons, notices >>

PoolNames == { MODELS[i] : i \in 1..Len(MODELS) }

\* the bookkeeping of one call of extract_text_with_retry: how it ended, the
\* calls it sent to each identity, the rotations it made
NoRequest == [status |-> "none", start |-> 0, calls |-> << >>, rotations |-> 0, error |-> ""]

IdleHandler ==
    [ pc |-> "idle", kind |-> "none", chat |-> 0,
      photo |-> NoPhoto, document |-> NoDocument,
      attempts |-> 0, max_attempts |-> 0, model |-> "",
      page_num |-> 0, page_count |-> 0, max_pages |-> 0, all_text |-> "",
      processing_message |-> 0, rendered |-> << >>, attempted |-> << >>,
      results |-> << >>, e |-> "", extracted_text |-> "",
      result_message |-> 0, chunk |-> 0, button |-> NoButton,
      req |-> NoRequest ]

\* MODEL_USAGE = {model: {"count": 0, "last_used": 0, "errors": 0} ...}
InitialUsage(pool) ==
    [m \in { pool[i] : i \in 1..Len(pool) } |-> [count |-> 0, last_used |-> 0, errors |-> 0]]

Init ==
    /\ MODELS \in Pools
    /\ limited \in { { MODELS[i] : i \in 1..k } : k \in 0..Len(MODELS) }
    /\ current_model_idx = 0
    /\ MODEL_USAGE = InitialUsage(MODELS)
    /\ now = 1
    /\ user_data = [u \in Users |-> << >>]
    /\ h = [s \in Slots |-> IdleHandler]
    /\ next_message_id = [c \in Chats |-> 1]
    /\ sent = [s \in Slots |-> << >>]
    /\ buttons = [c \in Chats |-> {}]
    /\ notices = [c \in Chats |-> {}]
    /\ tmp_files = 0
    /\ emails = << >>
    /\ updates = 0
    /\ last = [chat |-> 0, kind |-> "none", button |-> 0]

(***************************************************************************)
(* The failover retry engine: get_current_model, rotate_model_on_error,    *)
(* extract_text_with_retry.                                                *)
(***************************************************************************)
\* a cursor read that yields the first identity wherever the cursor is;
\* ExhaustedTriedEveryIdentity must tell it apart
get_current_model_first == MODELS[1]

\* MODELS[current_model_idx]
get_current_model == MODELS[current_model_idx + 1]

\* a test that takes every error for a rate-limit error; FatalIsImmediate
\* must tell it apart
IsRateLimitAlways(error_msg) == TRUE

\* "429" in error_msg or "quota" in error_msg
IsRateLimit(error_msg) == Contains("429", error_msg) \/ Contains("quota", error_msg)

\* a count that goes to the first identity of the pool whatever identity
\* is named; RetryGoesToSuccessor must tell it apart
RecordAttemptOfFirst(usage, m, t) ==
    [usage EXCEPT ![MODELS[1]].count = @ + 1, ![MODELS[1]].last_used = t]

\* MODEL_USAGE[current_model]["count"] += 1; ["last_used"] = time.time()
RecordAttempt(usage, m, t) ==
    [usage EXCEPT ![m].count = @ + 1, ![m].last_used = t]

\* an error count that is lost; CountersAgree must tell it apart
RecordErrorLost(usage, m) == usage

\* MODEL_USAGE[current_model]["errors"] += 1
RecordError(usage, m) == [usage EXCEPT ![m].errors = @ + 1]

\* a rotation that does not wrap around; CursorMoves must tell it apart
NextIdxNoWrap(idx) == idx + 1

\* a rotation that leaves the cursor where it is; FailoverScenario must tell
\* it apart
NextIdxStays(idx) == idx

\* (current_model_idx + 1) % len(MODELS)
NextIdx(idx) == (idx + 1) % Len(MODELS)

\* a failure that is not counted; RequestsFinish must tell it apart
CountFailureLost(attempts) == attempts

\* attempts += 1 (line 98)
CountFailure(attempts) == attempts + 1

\* a budget of one attempt more than line 80 grants; AttemptBound must tell
\* it apart
MaxAttemptsOneMore == RetryFactor * Len(MODELS) + 1

\* max_attempts = 3 * len(MODELS)
MaxAttempts == RetryFactor * Len(MODELS)

\* what the image of the running extraction of handler s can yield
CurrentImage(s) ==
    IF h[s].kind = "photo" THEN Answers
    ELSE { h[s].document.pages[h[s].page_num + 1] }

\* what model.generate_content answers: a rate-limit error while the
\* identity is out of quota, and else what the image yields
Generate(m, image, rl_msg) ==
    IF m \in limited
    THEN [ok |-> FALSE, text |-> "", error |-> rl_msg]
    ELSE image

\* one more call sent to identity m by the request
CountCall(req, m) == [req EXCEPT !.calls[m] = @ + 1]

\* lines 84-93: the usage of the identity under the cursor is counted, the
\* call goes to the request's model object
StartCall(s, hs, m) ==
    /\ MODEL_USAGE' = RecordAttempt(MODEL_USAGE, get_current_model, now)
    /\ now' = now + 1
    /\ h' = [h EXCEPT ![s] = [hs EXCEPT !.pc = "calling", !.model = m,
                                         !.req = CountCall(hs.req, m)]]

\* lines 78-93: extract_text_with_retry starts and sends its first call
BeginRequest(s, hs) ==
    /\ StartCall(s, [hs EXCEPT !.attempts = 0,
                               !.max_attempts = MaxAttempts,
                               !.attempted = IF hs.kind = "document"
                                             THEN Append(@, hs.page_num + 1)
                                             ELSE @,
                               !.req = [status |-> "running",
                                        start |-> current_model_idx,
                                        calls |-> [m \in PoolNames |-> 0],
                                        rotations |-> 0, error |-> ""]],
                 get_current_model)
    /\ current_model_idx' = current_model_idx

\* lines 231 and 328, after the await of line 229 or 323: the handler calls
\* extract_text_with_retry
ExtractBegin(s) ==
    /\ h[s].pc = "extract"
    /\ BeginRequest(s, h[s])
    /\ UNCHANGED << config, user_data, chat, tmp_files, emails, updates, last >>

\* lines 96-109 and 60-72: a rate-limit error below the budget; the error is
\* counted for the identity under the cursor, the cursor moves on, and the
\* coroutine sleeps 2 seconds
CallRateLimited(s) ==
    /\ h[s].pc = "calling"
    /\ \E rl_msg \in RateLimitMsgsOf(h[s].model), image \in CurrentImage(s) :
         LET r == Generate(h[s].model, image, rl_msg) IN
         /\ ~r.ok
         /\ IsRateLimit(r.error)
         /\ CountFailure(h[s].attempts) < h[s].max_attempts
         /\ MODEL_USAGE' = RecordError(MODEL_USAGE, get_current_model)
         /\ current_model_idx' = NextIdx(current_model_idx)
         /\ h' = [h EXCEPT ![s].attempts = CountFailure(@), ![s].pc = "sleeping",
                           ![s].req.rotations = @ + 1, ![s].req.error = r.error]
    /\ UNCHANGED << config, now, user_data, chat, tmp_files, emails, updates, last >>

\* lines 73 and 82-93: the sleep ends, the model object is made anew from the
\* cursor and the next call is sent
BackoffEnds(s) ==
    /\ h[s].pc = "sleeping"
    /\ h[s].attempts < h[s].max_attempts
    /\ StartCall(s, h[s], get_current_model)
    /\ current_model_idx' = current_model_idx
    /\ UNCHANGED << config, user_data, chat, tmp_files, emails, updates, last >>

(***************************************************************************)
(* What the handlers do with the outcome of extract_text_with_retry, up to *)
(* their next await.                                                       *)
(***************************************************************************)
\* update.message.reply_text, once per message of msgs, by handler s in
\* chat c
Say(s, c, msgs) ==
    /\ sent' = [sent EXCEPT ![s] = @ \o msgs]
    /\ next_message_id' = [next_message_id EXCEPT ![c] = @ + Len(msgs)]

\* replies of a running handler
Reply(s, msgs) == Say(s, h[s].chat, msgs)

\* context.user_data['extractions'][message_id] = text, after
\* if 'extractions' not in context.user_data: context.user_data['extractions'] = {}
Store(ud, message_id, text) ==
    LET old == IF "extractions" \in DOMAIN ud THEN ud["extractions"] ELSE << >>
    IN  [k \in {"extractions"} |->
            [e \in (DOMAIN old) \cup {message_id} |->
                IF e = message_id THEN text ELSE old[e]]]

\* 'extractions' in context.user_data and message_id in context.user_data['extractions']
InLedger(ud, message_id) ==
    /\ "extractions" \in DOMAIN ud
    /\ message_id \in DOMAIN ud["extractions"]

\* the button of lines 253-257 and 376-380 under message `message`; handle
\* and text keep, for the record, the handle and the full text it was made for
Button(message, message_id, text) ==
    [message |-> message, data |-> "send_email:" \o message_id,
     handle |-> message_id, text |-> text]

\* a lookup that finds every handle, with the empty text when it is not in
\* the ledger; TapWithoutEntry must tell it apart
LookupAlwaysFinds(ud, message_id) ==
    [found |-> TRUE,
     text |-> IF InLedger(ud, message_id) THEN ud["extractions"][message_id] ELSE ""]

\* extracted_text = context.user_data['extractions'][message_id], guarded by
\* the test of line 193
Lookup(ud, message_id) ==
    IF InLedger(ud, message_id)
    THEN [found |-> TRUE, text |-> ud["extractions"][message_id]]
    ELSE [found |-> FALSE, text |-> ""]

\* a lookup that takes the entry out of the ledger; TapFrame must tell it
\* apart
AfterLookupPops(ud, message_id) ==
    IF InLedger(ud, message_id)
    THEN [k \in {"extractions"} |->
            [e \in (DOMAIN ud["extractions"]) \ {message_id} |-> ud["extractions"][e]]]
    ELSE ud

\* context.user_data after the lookup of line 194, which reads the entry
AfterLookup(ud, message_id) == ud

\* lines 232 and 239: extracted_text is set and the heading sent; the handler
\* waits at line 239
ImageExtracted(s, hs, extracted_text) ==
    /\ Reply(s, << "Extracted Persian Text:" >>)
    /\ h' = [h EXCEPT ![s] = [hs EXCEPT !.pc = "image_heading",
                                         !.extracted_text = extracted_text]]
    /\ UNCHANGED << user_data, buttons, notices >>

\* lines 233-234: the first message of the inner except clause is sent; the
\* handler waits at line 234
ImageFailed(s, hs, e) ==
    /\ Reply(s, << "API Error: " \o e >>)
    /\ h' = [h EXCEPT ![s] = [hs EXCEPT !.pc = "image_api_error", !.e = e]]
    /\ UNCHANGED << user_data, buttons, notices >>

PageNo(hs) == ToString(hs.page_num + 1)

\* lines 330 and 336-342: the banner is appended, then the message sent; the
\* handler waits at line 338 or 341, the loop's next turn ahead
PageExtracted(s, hs, text) ==
    LET page_text == Strip(text) IN
    /\ IF page_text # ""
       THEN /\ Reply(s, << "Page " \o PageNo(hs) \o " text extracted" >>)
            /\ h' = [h EXCEPT ![s] =
                  [hs EXCEPT !.pc = "page_loop", !.page_num = @ + 1,
                             !.results = Append(@, [page |-> hs.page_num + 1, kind |-> "text", payload |-> page_text]),
                             !.all_text = @ \o "\n--- Page " \o PageNo(hs) \o " ---\n"
                                            \o page_text \o "\n"]]
       ELSE /\ Reply(s, << "No text found on page " \o PageNo(hs) >>)
            /\ h' = [h EXCEPT ![s] =
                  [hs EXCEPT !.pc = "page_loop", !.page_num = @ + 1,
                             !.results = Append(@, [page |-> hs.page_num + 1, kind |-> "empty", payload |-> ""]),
                             !.all_text = @ \o "\n--- Page " \o PageNo(hs)
                                            \o ": No text detected ---\n"]]
    /\ UNCHANGED << user_data, buttons, notices >>

\* a page failure that ends the document as the outer except clause would;
\* PageFailureIsRecorded must tell it apart
PageFailedAborts(s, hs, e) ==
    /\ Reply(s, << "Error processing PDF: " \o e >>)
    /\ h' = [h EXCEPT ![s] = [hs EXCEPT !.pc = "before_delete", !.e = e]]
    /\ UNCHANGED << user_data, buttons, notices >>

\* lines 331-332: the error is reported; the handler waits at line 332, the
\* banner of line 333 not yet appended
PageFailed(s, hs, e) ==
    /\ Reply(s, << "API Error on page " \o PageNo(hs) \o ": " \o e >>)
    /\ h' = [h EXCEPT ![s] = [hs EXCEPT !.pc = "page_error", !.e = e]]
    /\ UNCHANGED << user_data, buttons, notices >>

\* the caller of extract_text_with_retry resumes with its result
Returned(s, hs, text) ==
    IF hs.kind = "photo" THEN ImageExtracted(s, hs, text) ELSE PageExtracted(s, hs, text)

\* the caller of extract_text_with_retry resumes in its except clause
Raised(s, hs, e) ==
    IF hs.kind = "photo" THEN ImageFailed(s, hs, e) ELSE PageFailed(s, hs, e)

\* lines 93-94: the call returns a response
CallSucceeds(s) ==
    /\ h[s].pc = "calling"
    /\ \E rl_msg \in RateLimitMsgsOf(h[s].model), image \in CurrentImage(s) :
         LET r == Generate(h[s].model, image, rl_msg) IN
         /\ r.ok
         /\ Returned(s, [h[s] EXCEPT !.req.status = "success"], r.text)
    /\ UNCHANGED << config, shared, tmp_files, emails, updates, last >>

\* lines 96-106: a rate-limit error on the last attempt of the budget
CallExhausted(s) ==
    /\ h[s].pc = "calling"
    /\ \E rl_msg \in RateLimitMsgsOf(h[s].model), image \in CurrentImage(s) :
         LET r == Generate(h[s].model, image, rl_msg) IN
         /\ ~r.ok
         /\ IsRateLimit(r.error)
         /\ CountFailure(h[s].attempts) >= h[s].max_attempts
         /\ Raised(s, [h[s] EXCEPT !.attempts = CountFailure(@), !.req.status = "exhausted",
                                   !.req.error = r.error],
                   "All models exhausted. Please try again later.")
    /\ UNCHANGED << config, shared, tmp_files, emails, updates, last >>

\* lines 96-98 and 110-113: any other error is raised again at once
CallFails(s) ==
    /\ h[s].pc = "calling"
    /\ \E rl_msg \in RateLimitMsgsOf(h[s].model), image \in CurrentImage(s) :
         LET r == Generate(h[s].model, image, rl_msg) IN
         /\ ~r.ok
         /\ ~IsRateLimit(r.error)
         /\ Raised(s, [h[s] EXCEPT !.attempts = CountFailure(@), !.req.status = "fatal",
                                   !.req.error = r.error], r.error)
    /\ UNCHANGED << config, shared, tmp_files, emails, updates, last >>

(***************************************************************************)
(* The handlers: start, help_command, process_image, process_document,     *)
(* handle_button_callback.  Each action runs a handler from one await to   *)
(* the next.                                                               *)
(***************************************************************************)
\* an allow-list that lets everyone in; UnauthorizedDoesNothing must tell
\* it apart
IsAuthorizedAnyone(u) == TRUE

\* user_id in AUTHORIZED_USERS
IsAuthorized(u) == u \in AUTHORIZED_USERS

Unauthorized == "Sorry, you are not authorized to use this bot."

\* the text of lines 136-140
Welcome ==
    "Welcome to the Persian OCR Bot! Send me images or PDFs containing Persian text, "
    \o "and I'll extract the text for you.\n"
    \o "After each extraction, you'll see a button to send the result to your email."

\* the text of lines 149-155
Help ==
    "Send me an image or PDF containing Persian text and I'll extract it.\n"
    \o "Commands:\n"
    \o "/start - Start the bot\n"
    \o "/help - Get help information\n\n"
    \o "After each extraction, you'll see a button to send the result to your email."

\* the handler invocation of the update that is received
NewSlot == updates + 1

\* an update of chat c is dispatched to its handler when the handler of the
\* update before it is over (main(), lines 400-410)
Received(c, kind, button) ==
    /\ \A s \in Slots : h[s].pc = "idle"
    /\ updates < MaxUpdates
    /\ updates' = updates + 1
    /\ last' = [chat |-> c, kind |-> kind, button |-> button]

\* start, lines 129-140
StartCommand(c) ==
    /\ Received(c, "start", 0)
    /\ IF ~IsAuthorized(UserOf(c))
       THEN Say(NewSlot, c, << Unauthorized >>)
       ELSE Say(NewSlot, c, << Welcome >>)
    /\ UNCHANGED << config, shared, user_data, h, buttons, notices, tmp_files, emails >>

\* help_command, lines 143-155
HelpCommand(c) ==
    /\ Received(c, "help", 0)
    /\ IF ~IsAuthorized(UserOf(c))
       THEN UNCHANGED << sent, next_message_id >>
       ELSE Say(NewSlot, c, << Help >>)
    /\ UNCHANGED << config, shared, user_data, h, buttons, notices, tmp_files, emails >>

\* lines 262-264 and 387-389: the outer except clause reports the error; the
\* handler waits at line 264 or 389
OuterExcept(s, what, e) ==
    /\ Reply(s, << "Error processing " \o what \o ": " \o e >>)
    /\ h' = [h EXCEPT ![s].pc = "outer_error", ![s].e = e]

\* context.bot.delete_message(..., processing_message.message_id), lines 269
\* and 394, after which the handler is over
DeleteProcessingMessage(s) ==
    /\ notices' = [notices EXCEPT ![h[s].chat] = @ \ {h[s].processing_message}]
    /\ h' = [h EXCEPT ![s].pc = "idle"]

\* lines 265-269 and 390-394: after the report of the outer except clause
OuterExceptEnds(s) ==
    /\ h[s].pc = "outer_error"
    /\ IF Contains("429", h[s].e)
       THEN /\ Reply(s, << "Rate limit exceeded. Please try again later." >>)
            /\ h' = [h EXCEPT ![s].pc = "before_delete"]
            /\ notices' = notices
       ELSE /\ DeleteProcessingMessage(s)
            /\ UNCHANGED << sent, next_message_id >>
    /\ UNCHANGED << config, shared, user_data, buttons, tmp_files, emails, updates, last >>

\* lines 269 and 394, after the last message of the try statement or of its
\* except clause
DeleteNotice(s) ==
    /\ h[s].pc = "before_delete"
    /\ DeleteProcessingMessage(s)
    /\ UNCHANGED << config, shared, user_data, sent, next_message_id, buttons,
                    tmp_files, emails, updates, last >>

\* process_image, lines 207-218: the refusal, or the processing notice, at
\* which the handler waits
PhotoReceived(c, p) ==
    /\ Received(c, "photo", 0)
    /\ IF ~IsAuthorized(UserOf(c))
       THEN /\ Say(NewSlot, c, << Unauthorized >>)
            /\ UNCHANGED << h, notices >>
       ELSE /\ Say(NewSlot, c, << "Processing your image..." >>)
            /\ h' = [h EXCEPT ![NewSlot] =
                       [IdleHandler EXCEPT !.pc = "image_fetch", !.chat = c,
                                           !.kind = "photo", !.photo = p,
                                           !.processing_message = next_message_id[c]]]
            /\ notices' = [notices EXCEPT ![c] = @ \cup {next_message_id[c]}]
    /\ UNCHANGED << config, shared, user_data, buttons, tmp_files, emails >>

\* lines 222-229: the photo is fetched and decoded (the awaits of lines 218,
\* 222 and 223 follow each other with no state read or written between
\* them) and the progress message names the identity under the cursor; a
\* failure goes to the outer except clause
ImageOpened(s) ==
    /\ h[s].pc = "image_fetch"
    /\ IF h[s].photo.fault # ""
       THEN OuterExcept(s, "image", h[s].photo.fault)
       ELSE /\ Reply(s, << "Extracting Persian text with Gemini "
                              \o get_current_model \o "..." >>)
            /\ h' = [h EXCEPT ![s].pc = "extract"]
    /\ UNCHANGED << config, shared, user_data, buttons, notices, tmp_files,
                    emails, updates, last >>

\* lines 235-236: the second message of the inner except clause, and the
\* return inside the try statement, before line 269
ImageGivesUp(s) ==
    /\ h[s].pc = "image_api_error"
    /\ Reply(s, << "Try again in a few minutes or contact the administrator." >>)
    /\ h' = [h EXCEPT ![s].pc = "idle"]
    /\ UNCHANGED << config, shared, user_data, buttons, notices, tmp_files,
                    emails, updates, last >>

\* line 240: the text is sent; result_message is the message that carries it
ImageText(s) ==
    /\ h[s].pc = "image_heading"
    /\ Reply(s, << h[s].extracted_text >>)
    /\ h' = [h EXCEPT ![s].pc = "image_text",
                      ![s].result_message = next_message_id[h[s].chat]]
    /\ UNCHANGED << config, shared, user_data, buttons, notices, tmp_files,
                    emails, updates, last >>

\* lines 243-260 and 366-380: the text is stored under the handle and the
\* question sent with the button
Offer(s, message_id, text) ==
    /\ user_data' = [user_data EXCEPT ![UserOf(h[s].chat)] = Store(@, message_id, text)]
    /\ Reply(s, << "Would you like to send this text to your email?" >>)
    /\ buttons' = [buttons EXCEPT
                     ![h[s].chat] = @ \cup {Button(next_message_id[h[s].chat],
                                                   message_id, text)}]
    /\ h' = [h EXCEPT ![s].pc = "before_delete"]

\* lines 243-260 of process_image
ImageOffer(s) ==
    /\ h[s].pc = "image_text"
    /\ Offer(s, "img_" \o ToString(h[s].result_message), h[s].extracted_text)
    /\ UNCHANGED << config, shared, notices, tmp_files, emails, updates, last >>

\* a page range without the cap; PagesInOrderUpToCap must tell it apart
MaxPagesUncapped(page_count) == page_count

\* max_pages = min(page_count, 3)
MaxPagesFor(page_count) == Min(page_count, PageCap)

\* process_document, lines 272-287: the refusal, the request for a PDF, or
\* the processing notice, at which the handler waits
DocumentReceived(c, d) ==
    /\ Received(c, "document", 0)
    /\ IF ~IsAuthorized(UserOf(c))
       THEN /\ Say(NewSlot, c, << Unauthorized >>)
            /\ UNCHANGED << h, notices >>
       ELSE IF ~EndsWith(ToLower(d.file_name), ".pdf")
       THEN /\ Say(NewSlot, c, << "Please send a PDF document." >>)
            /\ UNCHANGED << h, notices >>
       ELSE /\ Say(NewSlot, c, << "Processing your PDF..." >>)
            /\ h' = [h EXCEPT ![NewSlot] =
                       [IdleHandler EXCEPT !.pc = "doc_fetch", !.chat = c,
                                           !.kind = "document", !.document = d,
                                           !.processing_message = next_message_id[c]]]
            /\ notices' = [notices EXCEPT ![c] = @ \cup {next_message_id[c]}]
    /\ UNCHANGED << config, shared, user_data, buttons, tmp_files, emails >>

\* lines 291-300: the file is fetched (the awaits of lines 287, 291 and 292
\* follow each other), written to a temporary file that stays
\* (delete=False), and the opening announced; a failure to fetch it goes to
\* the outer except clause
DocSaved(s) ==
    /\ h[s].pc = "doc_fetch"
    /\ IF h[s].document.download_fault # ""
       THEN /\ OuterExcept(s, "PDF", h[s].document.download_fault)
            /\ tmp_files' = tmp_files
       ELSE /\ tmp_files' = tmp_files + 1
            /\ Reply(s, << "Opening PDF... (" \o h[s].document.file_name \o ")" >>)
            /\ h' = [h EXCEPT ![s].pc = "doc_opening"]
    /\ UNCHANGED << config, shared, user_data, buttons, notices, emails, updates, last >>

\* lines 301-309: fitz.open, the page count and the cap; a failure to open
\* the file goes to the outer except clause
DocOpened(s) ==
    /\ h[s].pc = "doc_opening"
    /\ IF h[s].document.open_fault # ""
       THEN OuterExcept(s, "PDF", h[s].document.open_fault)
       ELSE /\ Reply(s, << "Found " \o ToString(Len(h[s].document.pages))
                              \o " pages. Processing..." >>)
            /\ h' = [h EXCEPT ![s].pc = "page_loop",
                              ![s].page_count = Len(h[s].document.pages),
                              ![s].max_pages = MaxPagesFor(Len(h[s].document.pages))]
    /\ UNCHANGED << config, shared, user_data, buttons, notices, tmp_files,
                    emails, updates, last >>

\* lines 310-311: the next page of range(max_pages) is announced
NextPage(s, hs) ==
    /\ Reply(s, << "Processing page " \o PageNo(hs) \o "/"
                      \o ToString(hs.max_pages) \o "..." >>)
    /\ h' = [h EXCEPT ![s] = [hs EXCEPT !.pc = "page_announced"]]
    /\ tmp_files' = tmp_files

\* lines 344-353 and 384: the loop is over; the file is closed and deleted
\* and the heading sent, or the notice that no text was found
AfterLoop(s, hs) ==
    /\ tmp_files' = tmp_files - 1
    /\ IF Strip(hs.all_text) # ""
       THEN /\ Reply(s, << "Extracted Persian Text from PDF:" >>)
            /\ h' = [h EXCEPT ![s] = [hs EXCEPT !.pc = "doc_heading"]]
       ELSE /\ Reply(s, << "No Persian text detected in the PDF." >>)
            /\ h' = [h EXCEPT ![s] = [hs EXCEPT !.pc = "before_delete"]]

\* lines 310-311, after the await of line 305, 338 or 341
DocPage(s) ==
    /\ h[s].pc = "page_loop"
    /\ h[s].page_num < h[s].max_pages
    /\ NextPage(s, h[s])
    /\ UNCHANGED << config, shared, user_data, buttons, notices,
                    emails, updates, last >>

\* lines 314-328: the page is rendered; before every page but the first the
\* wait is announced and made (lines 322-323), and the first page goes to
\* extract_text_with_retry at once
DocRender(s) ==
    /\ h[s].pc = "page_announced"
    /\ LET hs == [h[s] EXCEPT !.rendered = Append(@, h[s].page_num + 1)] IN
       IF hs.page_num > 0
       THEN /\ Reply(s, << "Waiting a moment to avoid rate limits..." >>)
            /\ h' = [h EXCEPT ![s] = [hs EXCEPT !.pc = "extract"]]
            /\ UNCHANGED shared
       ELSE /\ BeginRequest(s, hs)
            /\ UNCHANGED << sent, next_message_id >>
    /\ UNCHANGED << config, user_data, buttons, notices, tmp_files, emails, updates, last >>

\* line 333 and the continue of line 334, after the await of line 332: the
\* error banner is appended and the loop goes on
PageErrorRecorded(s) ==
    /\ h[s].pc = "page_error"
    /\ LET hs == [h[s] EXCEPT
                    !.page_num = @ + 1,
                    !.results = Append(@, [page |-> h[s].page_num + 1, kind |-> "error",
                                           payload |-> h[s].e]),
                    !.all_text = @ \o "\n--- Page " \o PageNo(h[s])
                                   \o ": Error processing - " \o h[s].e \o " ---\n"]
       IN  IF hs.page_num < hs.max_pages THEN NextPage(s, hs) ELSE AfterLoop(s, hs)
    /\ UNCHANGED << config, shared, user_data, buttons, notices,
                    emails, updates, last >>

\* lines 344-353 and 384, after the await of line 305, 338 or 341
DocFinish(s) ==
    /\ h[s].pc = "page_loop"
    /\ h[s].page_num >= h[s].max_pages
    /\ AfterLoop(s, h[s])
    /\ UNCHANGED << config, shared, user_data, buttons, notices,
                    emails, updates, last >>

\* line 360: the next chunk is sent; result_message is the message that
\* carries it
DocChunk(s) ==
    /\ h[s].pc \in {"doc_heading", "doc_continued"}
    /\ Reply(s, << Chunks(h[s].all_text)[h[s].chunk + 1] >>)
    /\ h' = [h EXCEPT ![s].pc = "doc_chunk", ![s].chunk = @ + 1,
                      ![s].result_message = next_message_id[h[s].chat]]
    /\ UNCHANGED << config, shared, user_data, buttons, notices, tmp_files,
                    emails, updates, last >>

\* lines 361-362: the marker after every chunk but the last
DocContinued(s) ==
    /\ h[s].pc = "doc_chunk"
    /\ h[s].chunk < Len(Chunks(h[s].all_text))
    /\ Reply(s, << "(continued...)" >>)
    /\ h' = [h EXCEPT ![s].pc = "doc_continued"]
    /\ UNCHANGED << config, shared, user_data, buttons, notices, tmp_files,
                    emails, updates, last >>

\* the last chunk only, the text of the message the handle names;
\* EmailCarriesStoredText must tell it apart
CompleteTextLastChunk(all_text) == Chunks(all_text)[Len(Chunks(all_text))]

\* the text stored for the email button (line 358)
CompleteText(all_text) == all_text

\* lines 366-380 of process_document, after the last chunk
DocOffer(s) ==
    /\ h[s].pc = "doc_chunk"
    /\ h[s].chunk >= Len(Chunks(h[s].all_text))
    /\ Offer(s, "pdf_" \o ToString(h[s].result_message), CompleteText(h[s].all_text))
    /\ UNCHANGED << config, shared, notices, tmp_files, emails, updates, last >>

\* send_email, lines 160-178: one SMTP session; True, or False on any error
send_email(to_email, subject, body, delivered) ==
    [to |-> to_email, subject |-> subject, body |-> body, result |-> delivered]

\* a tap that takes the button away whatever send_email returned;
\* ButtonGoesOnSuccessOnly must tell it apart
ButtonsAfterSendAlways(bs, b, result) == bs \ {b}

\* lines 197-202: query.edit_message_reply_markup(None) is called in the
\* branch where send_email returned True, and in no other
ButtonsAfterSend(bs, b, result) == IF result THEN bs \ {b} ELSE bs

\* handle_button_callback, lines 181-184: the tap on button b is answered
\* (query.answer()), at which the handler waits
ButtonTapped(c, b) ==
    /\ b \in buttons[c]
    /\ Received(c, "callback", b.message)
    /\ h' = [h EXCEPT ![NewSlot] =
               [IdleHandler EXCEPT !.pc = "tap_answer", !.chat = c,
                                   !.kind = "callback", !.button = b]]
    /\ UNCHANGED << config, shared, user_data, sent, next_message_id, buttons,
                    notices, tmp_files, emails >>

\* lines 187-204: the handle is looked up and the text mailed; the button
\* is taken away when the mail went out, after which the handler waits at
\* line 199; the other branches end with their notice
TapLookup(s, delivered) ==
    /\ h[s].pc = "tap_answer"
    /\ LET c == h[s].chat
           b == h[s].button
       IN  IF ~StartsWith(b.data, "send_email:")
           THEN /\ h' = [h EXCEPT ![s].pc = "idle"]
                /\ UNCHANGED << user_data, emails, buttons, sent, next_message_id >>
           ELSE
           LET message_id == SplitSecond(b.data)
               entry == Lookup(user_data[UserOf(c)], message_id)
           IN  /\ user_data' = [user_data EXCEPT ![UserOf(c)] = AfterLookup(@, message_id)]
               /\ IF entry.found
                  THEN LET mail == send_email(USER_EMAIL, "Extracted Persian Text",
                                              entry.text, delivered)
                       IN  /\ emails' = Append(emails, mail)
                           /\ buttons' = [buttons EXCEPT
                                            ![c] = ButtonsAfterSend(@, b, mail.result)]
                           /\ IF mail.result
                              THEN /\ h' = [h EXCEPT ![s].pc = "tap_edited"]
                                   /\ UNCHANGED << sent, next_message_id >>
                              ELSE /\ Reply(s, << "Failed to send email. Please check the logs." >>)
                                   /\ h' = [h EXCEPT ![s].pc = "idle"]
                  ELSE /\ Reply(s, << "Could not find the extracted text." >>)
                       /\ h' = [h EXCEPT ![s].pc = "idle"]
                       /\ UNCHANGED << emails, buttons >>
    /\ UNCHANGED << config, shared, notices, tmp_files, updates, last >>

\* line 200: the confirmation, after the await of line 199
TapConfirm(s) ==
    /\ h[s].pc = "tap_edited"
    /\ Reply(s, << "Text sent to " \o USER_EMAIL >>)
    /\ h' = [h EXCEPT ![s].pc = "idle"]
    /\ UNCHANGED << config, shared, user_data, buttons, notices, tmp_files,
                    emails, updates, last >>

\* the process is started again (lines 40-42, 397-415): the usage table, the
\* cursor and every user_data start anew; the chats keep their messages
Restart ==
    /\ \A s \in Slots : h[s].pc = "idle"
    /\ \E u \in Users : user_data[u] # << >>
    /\ updates' = updates
    /\ last' = [chat |-> 0, kind |-> "restart", button |-> 0]
    /\ current_model_idx' = 0
    /\ MODEL_USAGE' = InitialUsage(MODELS)
    /\ user_data' = [u \in Users |-> << >>]
    /\ h' = [s \in Slots |-> IdleHandler]
    /\ UNCHANGED << config, now, chat, tmp_files, emails >>

Next ==
    \/ \E c \in Chats : StartCommand(c)
    \/ \E c \in Chats : HelpCommand(c)
    \/ \E c \in Chats, p \in Photos : PhotoReceived(c, p)
    \/ \E c \in Chats, d \in Documents : DocumentReceived(c, d)
    \/ \E c \in Chats : \E b \in buttons[c] : ButtonTapped(c, b)
    \/ \E s \in Slots : ImageOpened(s)
    \/ \E s \in Slots : ExtractBegin(s)
    \/ \E s \in Slots : CallSucceeds(s)
    \/ \E s \in Slots : CallRateLimited(s)
    \/ \E s \in Slots : BackoffEnds(s)
    \/ \E s \in Slots : CallExhausted(s)
    \/ \E s \in Slots : CallFails(s)
    \/ \E s \in Slots : ImageGivesUp(s)
    \/ \E s \in Slots : ImageText(s)
    \/ \E s \in Slots : ImageOffer(s)
    \/ \E s \in Slots : DocSaved(s)
    \/ \E s \in Slots : DocOpened(s)
    \/ \E s \in Slots : DocPage(s)
    \/ \E s \in Slots : DocRender(s)
    \/ \E s \in Slots : PageErrorRecorded(s)
    \/ \E s \in Slots : DocFinish(s)
    \/ \E s \in Slots : DocChunk(s)
    \/ \E s \in Slots : DocContinued(s)
    \/ \E s \in Slots : DocOffer(s)
    \/ \E s \in Slots : OuterExceptEnds(s)
    \/ \E s \in Slots : DeleteNotice(s)
    \/ \E s \in Slots, delivered \in BOOLEAN : TapLookup(s, delivered)
    \/ \E s \in Slots : TapConfirm(s)
    \/ Restart

Spec == Init /\ [][Next]_vars

\* the steps of the extraction request of handler s
RequestStep(s) ==
    \/ ExtractBegin(s)
    \/ CallSucceeds(s)
    \/ CallRateLimited(s)
    \/ BackoffEnds(s)
    \/ CallExhausted(s)
    \/ CallFails(s)

\* the event loop resumes every coroutine whose await is over: each remote
\* call returns or fails and each asyncio.sleep ends
FairSpec == Spec /\ \A s \in Slots : WF_vars(RequestStep(s))

(***************************************************************************)
(* Properties.                                                             *)
(***************************************************************************)
RECURSIVE SumCalls(_, _)
\* the remote calls a request has sent to the identities of set ms
SumCalls(calls, ms) ==
    IF ms = {} THEN 0
    ELSE LET m == CHOOSE x \in ms : TRUE
         IN  calls[m] + SumCalls(calls, ms \ {m})

\* the remote calls a request has sent
Calls(req) == SumCalls(req.calls, DOMAIN req.calls)

Finished(req) == req.status \in {"success", "fatal", "exhausted"}

\* C1: one call of extract_text_with_retry sends at most 3 x pool size
\* remote calls, whatever the pool size; a request whose calls all failed
\* with a rate-limit error is reported exhausted with exactly that many
\* calls sent, and once it is reported no call of it is in flight or pending.
AttemptBound ==
    \A s \in Slots :
        LET req == h[s].req IN
        req.status # "none" =>
            /\ Calls(req) <= 3 * Len(MODELS)
            /\ h[s].attempts <= Calls(req)
            /\ req.status = "exhausted" =>
                  /\ Calls(req) = 3 * Len(MODELS)
                  /\ h[s].attempts = 3 * Len(MODELS)
            /\ Finished(req) => h[s].pc \notin {"calling", "sleeping"}

\* C1: a request over a pool of two has been reported exhausted after six calls
AttemptBoundReached ==
    \E s \in Slots :
        /\ Len(MODELS) = 2
        /\ h[s].req.status = "exhausted"
        /\ Calls(h[s].req) = 6

\* C2: when a remote call of a request fails with an error whose message
\* holds neither "429" nor "quota", on whatever attempt, the request ends at
\* once with that error: no rotation, the cursor and every error counter as
\* before, and no further call of the request in flight or pending.
FatalIsImmediate ==
    [][\A s \in Slots :
         ( /\ h[s].pc = "calling"
           /\ h'[s].attempts = h[s].attempts + 1
           /\ ~Contains("429", h'[s].req.error)
           /\ ~Contains("quota", h'[s].req.error) )
         => /\ current_model_idx' = current_model_idx
            /\ \A m \in PoolNames : MODEL_USAGE'[m].errors = MODEL_USAGE[m].errors
            /\ h'[s].req.rotations = h[s].req.rotations
            /\ h'[s].req.calls = h[s].req.calls
            /\ h'[s].req.status = "fatal"
            /\ h'[s].pc \notin {"calling", "sleeping"}
            /\ h'[s].req.error \in
                  { sent'[s][i] : i \in 1..Len(sent'[s]) }
                  \cup { SubSeq(sent'[s][i], Len(sent'[s][i]) - Len(h'[s].req.error) + 1,
                                Len(sent'[s][i])) : i \in 1..Len(sent'[s]) }
      ]_vars

\* C2: a request has ended with a fatal error on its second attempt, after
\* one rotation
FatalOnSecondAttempt ==
    \E s \in Slots :
        /\ h[s].req.status = "fatal"
        /\ h[s].attempts = 2
        /\ h[s].req.rotations = 1
        /\ h[s].req.error = "500 Internal error"

\* C3: with the pool [m1, m2], the cursor at m1, m1 always rate limited and
\* m2 answering, a request never ends exhausted, sends at most one call to
\* each identity, and succeeds on its second call after exactly one
\* rotation, leaving the cursor at m2.
FailoverScenario ==
    \A s \in Slots :
        LET req == h[s].req IN
        ( /\ Len(MODELS) = 2
          /\ limited = {MODELS[1]}
          /\ updates = 1
          /\ req.status # "none"
          /\ req.start = 0 )
        => /\ req.status # "exhausted"
           /\ req.calls[MODELS[1]] <= 1
           /\ req.calls[MODELS[2]] <= 1
           /\ req.rotations <= 1
           /\ req.status = "success" =>
                 /\ Calls(req) = 2
                 /\ req.calls[MODELS[1]] = 1
                 /\ req.calls[MODELS[2]] = 1
                 /\ req.rotations = 1
                 /\ h[s].attempts = 1
                 /\ get_current_model = MODELS[2]

\* C3: the scenario's request has succeeded
FailoverScenarioSucceeded ==
    \E s \in Slots :
        /\ Len(MODELS) = 2
        /\ limited = {MODELS[1]}
        /\ updates = 1
        /\ h[s].req.start = 0
        /\ h[s].req.status = "success"
        /\ current_model_idx = 1

\* C4: a request that ends with the exhausted error has itself sent 3
\* remote calls to every identity of the pool, each of them rate limited, in
\* whatever order the requests of the conversations run on the shared cursor
\* and wherever they find it: it is never reported exhausted while an
\* identity that would have answered was not tried by it.
ExhaustedTriedEveryIdentity ==
    \A s \in Slots :
        h[s].req.status = "exhausted" =>
            /\ \A m \in PoolNames : h[s].req.calls[m] = 3 /\ m \in limited
            /\ \A m \in PoolNames \ limited : h[s].req.calls[m] > 0

\* C4: after a request of one conversation ended exhausted and left the
\* cursor at the second identity, a request of another conversation started
\* there and ended exhausted too
ExhaustedAfterAnotherConversation ==
    \E s1, s2 \in Slots :
        /\ s1 < s2
        /\ Len(MODELS) = 2
        /\ h[s1].chat # h[s2].chat
        /\ h[s1].req.status = "exhausted"
        /\ h[s1].req.start = 0
        /\ h[s2].req.status = "exhausted"
        /\ h[s2].req.start = 1
        /\ h[s2].req.calls[MODELS[1]] = 3

\* C5: a photo or a document of a user outside AUTHORIZED_USERS is answered
\* with the refusal and nothing else: no handler is left running, so no
\* remote call follows, and the cursor, the usage table, the clock, every
\* ledger, the temporary files, the notices, the buttons and the emails are
\* as before.
UnauthorizedDoesNothing ==
    [][( /\ updates' = updates + 1
         /\ last'.kind \in {"photo", "document"}
         /\ UserOf(last'.chat) \notin AUTHORIZED_USERS )
       => /\ sent'[updates'] = << "Sorry, you are not authorized to use this bot." >>
          /\ \A s \in Slots \ {updates'} : sent'[s] = sent[s]
          /\ next_message_id'[last'.chat] = next_message_id[last'.chat] + 1
          /\ h' = h
          /\ h'[updates'].pc = "idle"
          /\ h'[updates'].req.status = "none"
          /\ user_data'[UserOf(last'.chat)] = << >>
          /\ UNCHANGED << current_model_idx, MODEL_USAGE, now, user_data, tmp_files,
                          notices, buttons, emails >>
      ]_vars

\* C5: a document of a user outside AUTHORIZED_USERS has been refused after
\* the pool had been used
UnauthorizedRefused ==
    /\ last.kind = "document"
    /\ last.chat \in Chats
    /\ UserOf(last.chat) \notin AUTHORIZED_USERS
    /\ sent[updates] = << "Sorry, you are not authorized to use this bot." >>
    /\ \E m \in PoolNames : MODEL_USAGE[m].count > 0

\* the step is the lookup of the tap handler s: it resumes after
\* query.answer() (line 184)
LooksUp(s) ==
    /\ h[s].pc = "tap_answer"
    /\ h'[s].pc # "tap_answer"

\* the ledger of the user who tapped, for tap handler s
LedgerOf(s) == user_data[UserOf(h[s].chat)]

\* handle `handle` is in the ledger ud
HasEntry(ud, handle) ==
    /\ "extractions" \in DOMAIN ud
    /\ handle \in DOMAIN ud["extractions"]

\* C6: the ledger keeps under each handle the text its button was made for
\* (for a PDF the whole assembled text), whatever is stored afterwards; and
\* a tap on a button whose handle is in the ledger hands exactly that text
\* to send_email, once.
EmailCarriesStoredText ==
    /\ [](\A c \in Chats : \A b \in buttons[c] :
            HasEntry(user_data[UserOf(c)], b.handle)
            => user_data[UserOf(c)]["extractions"][b.handle] = b.text)
    /\ [][\A s \in Slots :
            (LooksUp(s) /\ HasEntry(LedgerOf(s), h[s].button.handle))
            => /\ Len(emails') = Len(emails) + 1
               /\ SubSeq(emails', 1, Len(emails)) = emails
               /\ emails'[Len(emails')].body
                     = LedgerOf(s)["extractions"][h[s].button.handle]
               /\ emails'[Len(emails')].to = USER_EMAIL
       ]_vars

\* C6: the text of a PDF longer than one chunk has been handed to send_email
\* in full
LongTextEmailed ==
    /\ last.kind = "callback"
    /\ emails # << >>
    /\ Len(emails[Len(emails)].body) > 4000
    /\ Contains("--- Page 1 ---", emails[Len(emails)].body)
    /\ Contains("--- Page 3: No text detected ---", emails[Len(emails)].body)

\* C7: a tap on a button whose handle is not in the user's ledger is
\* answered with the not-found notice; send_email is not called and the
\* ledger gets no entry.
TapWithoutEntry ==
    [][\A s \in Slots :
         (LooksUp(s) /\ ~HasEntry(LedgerOf(s), h[s].button.handle))
         => /\ sent'[s] = << "Could not find the extracted text." >>
            /\ emails' = emails
            /\ user_data' = user_data
            /\ buttons' = buttons
            /\ h'[s].pc = "idle"
      ]_vars

\* C7: after a restart a button made before it has been tapped and its text
\* was not found
TapAfterRestart ==
    /\ last.kind = "callback"
    /\ sent[updates] = << "Could not find the extracted text." >>
    /\ user_data[UserOf(last.chat)] = << >>
    /\ buttons[last.chat] # {}
    /\ emails = << >>

RECURSIVE Banners(_, _)
\* the text assembled from the page results i.. of a document
Banners(results, i) ==
    IF i > Len(results) THEN ""
    ELSE LET r == results[i]
             n == ToString(r.page)
         IN  (CASE r.kind = "text" -> "\n--- Page " \o n \o " ---\n" \o r.payload \o "\n"
                [] r.kind = "empty" -> "\n--- Page " \o n \o ": No text detected ---\n"
                [] r.kind = "error" ->
                     "\n--- Page " \o n \o ": Error processing - " \o r.payload \o " ---\n")
             \o Banners(results, i + 1)

\* the pages of a document's handler that are to be processed: 1..min(n, 3)
Cap(hc) == IF Len(hc.document.pages) < 3 THEN Len(hc.document.pages) ELSE 3

\* the handler of a document that was opened has run to its end
DocumentDone(hc) ==
    /\ hc.kind = "document"
    /\ hc.pc = "idle"
    /\ hc.document.download_fault = ""
    /\ hc.document.open_fault = ""

\* C8: of a PDF of n pages the pages rendered, the pages sent to the model
\* and the page results are 1, 2, ... in ascending order and never beyond
\* min(n, 3); the assembled text is one banner per page result in that
\* order; no message names a page beyond the cap; and when the handler is
\* done exactly min(n, 3) pages were attempted.
PagesInOrderUpToCap ==
    \A s \in Slots :
        LET hs == h[s] IN
        hs.kind = "document" =>
            /\ Len(hs.rendered) <= Cap(hs)
            /\ \A i \in 1..Len(hs.rendered) : hs.rendered[i] = i
            /\ \A i \in 1..Len(hs.attempted) : hs.attempted[i] = i
            /\ \A i \in 1..Len(hs.results) : hs.results[i].page = i
            /\ Len(hs.results) <= Len(hs.attempted)
            /\ Len(hs.attempted) <= Len(hs.rendered)
            /\ Len(hs.rendered) <= Len(hs.results) + 1
            /\ hs.all_text = Banners(hs.results, 1)
            /\ \A i \in 1..Len(sent[s]) : \A k \in (Cap(hs) + 1)..(MaxPages + 1) :
                  /\ ~Contains("page " \o ToString(k), sent[s][i])
                  /\ ~Contains("Page " \o ToString(k), sent[s][i])
            /\ DocumentDone(hs) =>
                  /\ Len(hs.attempted) = Cap(hs)
                  /\ Len(hs.results) = Cap(hs)

\* C8: a PDF of more than three pages has been processed to its end, three
\* pages attempted
LongDocumentCapped ==
    \E s \in Slots :
        /\ DocumentDone(h[s])
        /\ Len(h[s].document.pages) > 3
        /\ h[s].attempted = << 1, 2, 3 >>
        /\ Len(h[s].results) = 3

\* C9: when the extraction of page k of a document fails, with a fatal or
\* with the exhausted error, the error is reported and, when the handler
\* resumes, the error banner of page k with the error message is appended
\* to the assembled text and the handler goes on with page k + 1 or, after
\* the last page, with the result, the notice kept; and a document's
\* handler only ends with every page up to the cap attempted.
PageFailureIsRecorded ==
    /\ [](\A s \in Slots :
            (h[s].kind = "document" /\ h[s].results # << >> /\ h[s].pc = "idle")
            => Len(h[s].attempted) = Cap(h[s]))
    /\ [][\A s \in Slots :
            ( /\ h[s].kind = "document"
              /\ h[s].pc = "calling"
              /\ h'[s].req.status \in {"fatal", "exhausted"} )
            => LET k == ToString(h[s].page_num + 1)
                   e == IF h'[s].req.status = "fatal"
                        THEN h'[s].req.error
                        ELSE "All models exhausted. Please try again later."
               IN  /\ sent'[s] = Append(sent[s], "API Error on page " \o k \o ": " \o e)
                   /\ h'[s].pc = "page_error"
                   /\ h'[s].e = e
                   /\ h'[s].page_num = h[s].page_num
                   /\ UNCHANGED << tmp_files, notices, user_data >>
       ]_vars
    /\ [][\A s \in Slots :
            (h[s].pc = "page_error" /\ h'[s] # h[s])
            => LET k == ToString(h[s].page_num + 1) IN
               /\ h'[s].all_text = h[s].all_text \o "\n--- Page " \o k
                                      \o ": Error processing - " \o h[s].e \o " ---\n"
               /\ h'[s].page_num = h[s].page_num + 1
               /\ h'[s].max_pages = h[s].max_pages
               /\ IF h'[s].page_num < h[s].max_pages
                  THEN /\ h'[s].pc = "page_announced"
                       /\ sent'[s] = Append(sent[s], "Processing page "
                                           \o ToString(h'[s].page_num + 1) \o "/"
                                           \o ToString(h[s].max_pages) \o "...")
                       /\ tmp_files' = tmp_files
                  ELSE h'[s].pc = "doc_heading"
               /\ UNCHANGED << notices, user_data >>
       ]_vars

\* C9: a document has been processed to its end whose second page failed
\* and whose third page was attempted after it
PageAfterFailure ==
    \E s \in Slots :
        /\ DocumentDone(h[s])
        /\ Len(h[s].results) = 3
        /\ h[s].results[2].kind = "error"
        /\ h[s].results[2].payload = "500 Internal error"
        /\ h[s].results[3].kind = "empty"
        /\ h[s].attempted = << 1, 2, 3 >>

\* C10: every step of a tap's handler leaves the cursor, the usage table
\* and every ledger as they were; the handler calls send_email at most once,
\* in its lookup step and in no other; when the delivery fails the user gets
\* the failure notice and the handler is over, when it succeeds the
\* confirmation follows and the handler is over; a handler that is over has
\* sent one message.
TapFrame ==
    /\ [][\A s \in Slots :
            (h'[s].kind = "callback" /\ h'[s] # h[s])
            => /\ UNCHANGED << current_model_idx, MODEL_USAGE, user_data >>
               /\ IF LooksUp(s)
                  THEN /\ Len(emails') <= Len(emails) + 1
                       /\ Len(emails') = Len(emails) + 1 =>
                             IF emails'[Len(emails')].result
                             THEN /\ h'[s].pc = "tap_edited"
                                  /\ sent'[s] = << >>
                             ELSE /\ h'[s].pc = "idle"
                                  /\ sent'[s] = << "Failed to send email. Please check the logs." >>
                  ELSE emails' = emails
               /\ h[s].pc = "tap_edited"
                  => /\ h'[s].pc = "idle"
                     /\ sent'[s] = << "Text sent to " \o USER_EMAIL >>
       ]_vars
    /\ [](\A s \in Slots :
            (h[s].kind = "callback" /\ h[s].pc = "idle") => Len(sent[s]) = 1)

\* C10: a delivery has failed and the user has the failure notice
DeliveryFailed ==
    /\ last.kind = "callback"
    /\ emails # << >>
    /\ ~emails[Len(emails)].result
    /\ sent[updates] = << "Failed to send email. Please check the logs." >>
    /\ \E m \in PoolNames : MODEL_USAGE[m].count > 0
    /\ user_data[UserOf(last.chat)] # << >>

\* C11: after a tap on a button whose handle is in the ledger the button is
\* gone, whether the delivery succeeded or failed.
ButtonGoesAfterFirstTap ==
    [][\A s \in Slots :
         (LooksUp(s) /\ HasEntry(LedgerOf(s), h[s].button.handle))
         => h[s].button \notin buttons'[h[s].chat]
      ]_vars

\* C11, amended: after a tap on a button whose handle is in the ledger the
\* button is gone when the delivery succeeded; when it failed the button
\* stays, as every other button does, and can be tapped again.
ButtonGoesOnSuccessOnly ==
    [][\A s \in Slots :
         (LooksUp(s) /\ HasEntry(LedgerOf(s), h[s].button.handle))
         => LET c == h[s].chat IN
            /\ Len(emails') = Len(emails) + 1
            /\ IF emails'[Len(emails')].result
               THEN buttons'[c] = buttons[c] \ {h[s].button}
               ELSE buttons'[c] = buttons[c]
            /\ \A o \in Chats \ {c} : buttons'[o] = buttons[o]
      ]_vars

\* C11: a delivery has failed and the tapped button is still there
ButtonKeptAfterFailure ==
    /\ last.kind = "callback"
    /\ emails # << >>
    /\ ~emails[Len(emails)].result
    /\ \E b \in buttons[last.chat] :
          /\ b.message = last.button
          /\ HasEntry(user_data[UserOf(last.chat)], b.handle)

\* C12: every temporary file that process_document wrote is deleted by the
\* time its handler is over, on the success path and on every failure path:
\* when no handler runs, no temporary file is left.
TempFilesDeleted ==
    (\A s \in Slots : h[s].pc = "idle") => tmp_files = 0

\* the step is one of handler s of a photo or a document and makes a new
\* button in its chat or changes its user's ledger
Offered(s) ==
    /\ h[s].kind \in {"photo", "document"}
    /\ h'[s] # h[s]
    /\ \/ buttons'[h[s].chat] # buttons[h[s].chat]
       \/ user_data'[UserOf(h[s].chat)] # user_data[UserOf(h[s].chat)]

\* the handle handler s stores its result under
HandleOf(hs) ==
    (IF hs.kind = "photo" THEN "img_" ELSE "pdf_") \o ToString(hs.result_message)

\* the extraction of handler s succeeded with a text that is not empty
YieldedText(hs) ==
    IF hs.kind = "photo"
    THEN hs.req.status = "success" /\ hs.extracted_text # ""
    ELSE \E i \in 1..Len(hs.results) : hs.results[i].kind = "text"

\* C13: a ledger entry and its button are made for a request exactly when the
\* extraction succeeded with a text that is not empty: for a photo when the
\* model's text is not empty, for a PDF when some processed page yielded
\* text.
EntryOnlyForText ==
    /\ [][\A s \in Slots :
            Offered(s)
            => /\ YieldedText(h[s])
               /\ InLedger(user_data'[UserOf(h[s].chat)], HandleOf(h[s]))
               /\ \E b \in buttons'[h[s].chat] \ buttons[h[s].chat] :
                     b.handle = HandleOf(h[s])
       ]_vars
    /\ [][\A s \in Slots :
            ( /\ h[s].kind \in {"photo", "document"}
              /\ h[s].pc # "idle" /\ h'[s].pc = "idle"
              /\ YieldedText(h[s]) )
            => InLedger(user_data'[UserOf(h[s].chat)], HandleOf(h[s]))
       ]_vars

\* the messages that carry the extracted text: those between the heading
\* and the question under which the button is
TextMessages(msgs) ==
    LET i == CHOOSE k \in 1..Len(msgs) :
                 msgs[k] \in {"Extracted Persian Text:", "Extracted Persian Text from PDF:"}
    IN  SubSeq(msgs, i + 1, Len(msgs) - 1)

RECURSIVE Concat(_, _)
\* the messages at the odd positions i, i + 2, ... of body, joined
Concat(body, i) ==
    IF i > Len(body) THEN "" ELSE body[i] \o Concat(body, i + 2)

\* C14: an extracted text, of an image as of a PDF, reaches the user as
\* messages of at most 4000 characters each which joined in order are the
\* whole text, with the continuation marker between every two of them.
TextSentInSegments ==
    [][\A s \in Slots :
         Offered(s)
         => \A b \in buttons'[h[s].chat] \ buttons[h[s].chat] :
         LET body == TextMessages(sent'[s]) IN
         /\ Len(body) % 2 = 1
         /\ \A k \in 1..Len(body) :
               IF k % 2 = 0 THEN body[k] = "(continued...)"
               ELSE Len(body[k]) <= 4000
         /\ Concat(body, 1) = b.text
      ]_vars

\* the step starts the process anew
Restarted ==
    /\ \A s \in Slots : h[s].pc = "idle"
    /\ updates' = updates

\* C15: the cursor is always an index of the pool; within a run of the
\* process every change of it is a step to the next index, wrapping around,
\* made by a request whose call failed with a rate-limit or quota error, and
\* every such failure below the budget makes that step; a call that
\* succeeds, a call that fails otherwise, and every update received
\* (unauthorized messages and taps among them) leave it as it is.
CursorMoves ==
    /\ [](current_model_idx \in 0..(Len(MODELS) - 1))
    /\ [][~Restarted =>
            /\ current_model_idx' # current_model_idx =>
                  /\ current_model_idx' = (current_model_idx + 1) % Len(MODELS)
                  /\ \E s \in Slots :
                        /\ h[s].pc = "calling"
                        /\ h'[s].pc = "sleeping"
                        /\ \/ Contains("429", h'[s].req.error)
                           \/ Contains("quota", h'[s].req.error)
            /\ \A s \in Slots :
                  (h[s].pc = "calling" /\ h'[s].pc = "sleeping")
                  => current_model_idx' = (current_model_idx + 1) % Len(MODELS)
            /\ \A s \in Slots :
                  (h[s].pc = "calling" /\ h'[s].req.status \in {"success", "fatal"})
                  => current_model_idx' = current_model_idx
            /\ updates' # updates => current_model_idx' = current_model_idx
       ]_vars

\* C15: the cursor of a pool of two is back at the first index after two
\* rotations of one request
CursorWrapped ==
    \E s \in Slots :
        /\ Len(MODELS) = 2
        /\ h[s].req.rotations = 2
        /\ h[s].req.start = 0
        /\ current_model_idx = 0

\* C16: every request that was started finishes, as a success, exhausted or
\* with a fatal error, whatever requests ran before it, given that calls
\* return or fail and sleeps end: again and again no request is running,
\* and a request stops running only by finishing in one of the three ways;
\* every failed call of it is counted against its budget; and every
\* request, also one that follows an exhausted one, starts with no attempt
\* counted and the full budget of 3 x pool size.
RequestsFinish ==
    /\ []<>(\A s \in Slots : h[s].req.status # "running")
    /\ [][\A s \in Slots :
            (h[s].req.status = "running" /\ h'[s].req.status # "running")
            => h'[s].req.status \in {"success", "exhausted", "fatal"}
       ]_vars
    /\ [](\A s \in Slots :
            h[s].req.status = "running" =>
                /\ h[s].pc \in {"calling", "sleeping"}
                /\ h[s].attempts = Calls(h[s].req) - (IF h[s].pc = "calling" THEN 1 ELSE 0)
                /\ h[s].attempts < h[s].max_attempts)
    /\ [][\A s \in Slots :
            (h[s].pc \notin {"calling", "sleeping"} /\ h'[s].req.status = "running")
            => /\ h[s].pc \in {"extract", "page_announced"}
               /\ h'[s].pc = "calling"
               /\ h'[s].attempts = 0
               /\ h'[s].max_attempts = 3 * Len(MODELS)
               /\ Calls(h'[s].req) = 1
       ]_vars

\* C16: after a page of a document ended exhausted, the request of the next
\* page has run and ended as well
RequestAfterExhaustion ==
    \E s \in Slots :
        /\ h[s].kind = "document"
        /\ Len(h[s].results) = 2
        /\ h[s].results[1].payload = "All models exhausted. Please try again later."
        /\ h[s].req.status = "exhausted"
        /\ Calls(h[s].req) = 3 * Len(MODELS)

\* C17: an extraction is never stored under a handle that is already in the
\* ledger it goes to, so that storing leaves every earlier entry of that
\* ledger as it was; the handle of a photo starts with img_ and the handle
\* of a PDF with pdf_.
HandlesAreFresh ==
    [][\A s \in Slots :
         Offered(s)
         => \A b \in buttons'[h[s].chat] \ buttons[h[s].chat] :
         LET old == user_data[UserOf(h[s].chat)]
             new == user_data'[UserOf(h[s].chat)]
         IN  /\ ~InLedger(old, b.handle)
             /\ InLedger(new, b.handle)
             /\ "extractions" \in DOMAIN old =>
                   \A e \in DOMAIN old["extractions"] :
                       /\ InLedger(new, e)
                       /\ new["extractions"][e] = old["extractions"][e]
             /\ h[s].kind = "photo" => StartsWith(b.handle, "img_")
             /\ h[s].kind = "document" => StartsWith(b.handle, "pdf_")
      ]_vars

\* the identity after m in the pool, the first one after the last
Successor(m) ==
    LET i == CHOOSE k \in 1..Len(MODELS) : MODELS[k] = m
    IN  MODELS[(i % Len(MODELS)) + 1]

\* C18: whenever a request sends a remote call, the identity whose count and
\* last_used are updated is the identity the call goes to and no other
\* identity is counted; and a call sent after a rotation goes to the
\* successor of the identity whose call just failed. Both hold in whatever
\* order the requests of the conversations run on the shared cursor.
RetryGoesToSuccessor ==
    [][\A s \in Slots :
         (h[s].pc # "calling" /\ h'[s].pc = "calling")
         => /\ MODEL_USAGE'[h'[s].model].count = MODEL_USAGE[h'[s].model].count + 1
            /\ MODEL_USAGE'[h'[s].model].last_used = now
            /\ \A m \in PoolNames \ {h'[s].model} : MODEL_USAGE'[m] = MODEL_USAGE[m]
            /\ h[s].pc = "sleeping" => h'[s].model = Successor(h[s].model)
      ]_vars

\* C18: a request of a second conversation, started where the request of
\* another conversation left the cursor, has rotated from the last identity
\* of the pool and its retry is in flight to the first
RetriedSuccessorAfterAnotherConversation ==
    \E s1, s2 \in Slots :
        /\ s1 < s2
        /\ Len(MODELS) = 2
        /\ h[s1].chat # h[s2].chat
        /\ Finished(h[s1].req)
        /\ h[s2].req.status = "running"
        /\ h[s2].req.start = 1
        /\ h[s2].req.rotations = 1
        /\ h[s2].pc = "calling"
        /\ h[s2].model = MODELS[1]
        /\ MODEL_USAGE[MODELS[1]].last_used = now - 1

\* the sum of one counter of MODEL_USAGE over the pool
Total(usage, field) ==
    SumCalls([m \in PoolNames |-> usage[m][field]], PoolNames)

\* the requests that send a remote call in the step
CallsStarted ==
    { s \in Slots : h[s].pc # "calling" /\ h'[s].pc = "calling" }

\* the requests that rotate in the step
Rotations ==
    { s \in Slots : h[s].pc = "calling" /\ h'[s].pc = "sleeping" }

\* C19: no counter update is lost, whatever requests share the cursor. The
\* cursor, which starts at 0, is the sum of the errors counters modulo the
\* pool size; every remote call that is started adds exactly one to the sum
\* of the count counters and nothing else changes that sum, so the sum is
\* the number of remote calls started; likewise every rotation adds exactly
\* one to the sum of the errors counters.
CountersAgree ==
    /\ [](current_model_idx = Total(MODEL_USAGE, "errors") % Len(MODELS))
    /\ [](Total(MODEL_USAGE, "count") >= Total(MODEL_USAGE, "errors"))
    /\ [][~Restarted =>
            /\ Total(MODEL_USAGE', "count")
                  = Total(MODEL_USAGE, "count") + Cardinality(CallsStarted)
            /\ Total(MODEL_USAGE', "errors")
                  = Total(MODEL_USAGE, "errors") + Cardinality(Rotations)
       ]_vars

\* C19: the requests of two conversations have rotated one after the other
\* over a pool of two, the first five times to its exhaustion, the second
\* twice so far: seven rotations in all, and the cursor is at the second
\* identity
CountersAfterTwoRequests ==
    \E s1, s2 \in Slots :
        /\ s1 # s2
        /\ Len(MODELS) = 2
        /\ h[s1].req.status = "exhausted"
        /\ h[s1].req.rotations = 5
        /\ h[s2].req.status = "running"
        /\ h[s2].req.rotations = 2
        /\ Total(MODEL_USAGE, "errors") = 7
        /\ Total(MODEL_USAGE, "count") >= 8
        /\ current_model_idx = 1

\* C20: a handler that posted its processing notice deletes it before it
\* is over, whatever the outcome: the notice of a photo or document handler
\* that is over is no longer in its chat.
NoticeDeleted ==
    \A s \in Slots :
        (h[s].pc = "idle" /\ h[s].kind \in {"photo", "document"})
        => h[s].processing_message \notin notices[h[s].chat]

====
